---- MODULE Spec2Model ----
(***************************************************************************)
(* Cache Refresher extension for SillyTavern: the refresh-cycle scheduler  *)
(* (capture / start / stop / timer / request completion), its settings     *)
(* handlers, the floating status indicator and the temporary               *)
(* response-length override, modelled as a state machine over the host's   *)
(* event loop.                                                             *)
(*                                                                         *)
(* JavaScript handlers run to completion, so every action is one handler   *)
(* (or one timer callback, or the continuation of one awaited request)     *)
(* with every call it makes.  The functions of the source are operators    *)
(* from program state to program state; an action applies them to the      *)
(* current state and commits the result.                                   *)
(*                                                                         *)
(* The settings handlers await saveSettings, which awaits nothing: their   *)
(* continuation runs as a microtask before any timer, event or response,   *)
(* so each is one step.  refreshCache awaits the host's request: the part  *)
(* before the await runs in the timer callback, the part after it when     *)
(* the request settles.  A fired timer's handle stays in refreshTimer.     *)
(***************************************************************************)
EXTENDS Integers, Sequences, FiniteSets, TLC

VARIABLES
    \* the host
    mainApi,                \* const mainApi taken once from SillyTavern.getContext()
    appReady,               \* APP_READY has been emitted: the event listeners exist
    openai_max_tokens,      \* chatCompletionSettings.openai_max_tokens
    timers,                 \* setTimeout callbacks pending in the event loop, in arming order
    inflight,               \* refresh requests awaiting sendGenerationRequest
    hooks,                  \* requests whose once-listener on CHAT_COMPLETION_SETTINGS_READY is registered
    stored,                 \* extension_settings[extensionName] as the host loaded it:
                            \* per property << >> when absent, <<v>> when v is stored
    \* the settings record
    enabled,
    refreshInterval,
    maxRefreshes,
    minTokens,
    showNotifications,
    showStatusIndicator,
    \* TempResponseLength
    originalResponseLength,
    \* the state variables of the extension
    prompt,                 \* lastGenerationData.prompt, 0 for null
    refreshTimer,           \* handle of the last timer armed, 0 for null
    refreshesLeft,
    refreshInProgress,
    nextRefreshTime,        \* << >> for null, <<t>> for a timestamp
    statusUpdateInterval,   \* the countdown setInterval exists
    statusDisplay,          \* the floating indicator is shown
    \* what the last handler did (observation only, read by no handler)
    toast,                  \* the notification the last handler showed, "none" if none
    ev,                     \* the last handler that ran
    quota,                  \* maxRefreshes as the last start set it, less the requests
                            \* issued since; -1 once more were issued than that
    edits,                  \* edits of the number inputs and display toggles so far
    phase,                  \* position in the scenario load; capture; start; fire/complete...
    resume                  \* "ok", or what is still owed after a chat change or a disable

vars == <<mainApi, appReady, openai_max_tokens, timers, inflight, hooks,
          stored, enabled, refreshInterval, maxRefreshes, minTokens,
          showNotifications, showStatusIndicator, originalResponseLength, prompt,
          refreshTimer,
          refreshesLeft, refreshInProgress, nextRefreshTime, statusUpdateInterval,
          statusDisplay, toast, ev, quota, edits, phase, resume>>

-----------------------------------------------------------------------------
(* Bounds of the model *)

MaxTimers == 2          \* pending timers the event loop holds
MaxInFlight == 2        \* refresh requests awaiting their response
MaxPrompt == 2          \* distinct captured prompts
MaxHostTokens == 2      \* the user's response length is 1..MaxHostTokens
MaxEdits == 1           \* edits of the number inputs and display toggles in one run

Prompts == 1..MaxPrompt
HostTokens == 1..MaxHostTokens
Apis == {"openai", "textgenerationwebui"}

\* Text typed into a number input, a sequence of characters
MaxRefreshesInputs == {<< >>, <<"0">>, <<"1">>, <<"2">>}
IntervalInputs == {<<"x">>, <<"1">>}
MinTokensInputs == {<< >>, <<"2">>}

\* Text typed into a number input when the edits are taken on their own: empty,
\* zero, not a number, negative, a whole number, a fraction
NumberTexts == {<< >>, <<"0">>, <<"x">>, <<"-", "1">>, <<"2">>, <<"1", ".", "5">>}

-----------------------------------------------------------------------------
(* defaultSettings *)

DefaultRefreshInterval == (5 * 60 - 30) * 1000
DefaultMaxRefreshes == 3
DefaultMinTokens == 1

\* A number read from text is << >> for NaN and <<n>> for the number n.
Digits == {"0", "1", "2", "3", "4", "5", "6", "7", "8", "9"}

DigitValue(c) ==
    CASE c = "0" -> 0 [] c = "1" -> 1 [] c = "2" -> 2 [] c = "3" -> 3 [] c = "4" -> 4
      [] c = "5" -> 5 [] c = "6" -> 6 [] c = "7" -> 7 [] c = "8" -> 8 [] c = "9" -> 9

\* the length of the longest prefix of text made of digits
RECURSIVE DigitPrefix(_)
DigitPrefix(text) ==
    IF text = << >> \/ Head(text) \notin Digits THEN 0
    ELSE 1 + DigitPrefix(Tail(text))

\* the value of a sequence of digits
RECURSIVE DigitsValue(_)
DigitsValue(ds) ==
    IF ds = << >> THEN 0
    ELSE 10 * DigitsValue(SubSeq(ds, 1, Len(ds) - 1)) + DigitValue(ds[Len(ds)])

\* parseInt: an optional sign and the leading digits; NaN when there are none
parseInt(text) ==
    LET neg == text # << >> /\ Head(text) = "-"
        body == IF neg THEN Tail(text) ELSE text
        n == DigitPrefix(body)
        v == DigitsValue(SubSeq(body, 1, n))
    IN  IF n = 0 THEN << >> ELSE <<IF neg THEN -v ELSE v>>

\* parseFloat, in tenths: an optional sign, the leading digits and, after a point,
\* one more digit (further digits are not modelled); NaN when there are no digits
parseFloat(text) ==
    LET neg == text # << >> /\ Head(text) = "-"
        body == IF neg THEN Tail(text) ELSE text
        n == DigitPrefix(body)
        rest == SubSeq(body, n + 1, Len(body))
        frac == IF Len(rest) >= 2 /\ rest[1] = "." /\ rest[2] \in Digits
                THEN DigitValue(rest[2]) ELSE 0
        v == 10 * DigitsValue(SubSeq(body, 1, n)) + frac
    IN  IF n = 0 THEN << >> ELSE <<IF neg THEN -v ELSE v>>

\* x || d : NaN and 0 are falsy
\* const defaultSettings, every property present
defaultSettings ==
    [enabled |-> <<FALSE>>,
     refreshInterval |-> <<DefaultRefreshInterval>>,
     maxRefreshes |-> <<DefaultMaxRefreshes>>,
     minTokens |-> <<DefaultMinTokens>>,
     showNotifications |-> <<TRUE>>,
     showStatusIndicator |-> <<TRUE>>]

\* extension_settings[extensionName] = {} when the host stored nothing
NoSettings ==
    [enabled |-> << >>, refreshInterval |-> << >>, maxRefreshes |-> << >>,
     minTokens |-> << >>, showNotifications |-> << >>, showStatusIndicator |-> << >>]

\* a merge in which the defaults overwrite what the user stored
ObjectAssign_defaultsWin(target, source) ==
    [p \in DOMAIN target |-> IF target[p] # << >> THEN target[p] ELSE source[p]]

\* Object.assign({}, target, source): the properties source has overwrite target's
ObjectAssign(target, source) ==
    [p \in DOMAIN target |-> IF source[p] # << >> THEN source[p] ELSE target[p]]

\* What the host may hold under the extension's key when the extension loads
StoredSettings ==
    [enabled : {<< >>, <<TRUE>>, <<FALSE>>},
     refreshInterval : {<< >>, <<60000>>},
     maxRefreshes : {<< >>, <<1>>, <<2>>},
     minTokens : {<< >>, <<2>>},
     showNotifications : {<< >>, <<TRUE>>, <<FALSE>>},
     showStatusIndicator : {<< >>, <<TRUE>>, <<FALSE>>}]

\* The runs of the whole extension start from a first load, nothing stored: the
\* user's toggles and edits then reach the other settings
StoredAtStart == {NoSettings}

OrDefault(x, d) == IF x = << >> \/ x[1] = 0 THEN d ELSE x[1]

-----------------------------------------------------------------------------
(* The program state as one record, and its commit *)

St == [mainApi |-> mainApi, openai_max_tokens |-> openai_max_tokens,
       timers |-> timers, inflight |-> inflight, hooks |-> hooks,
       enabled |-> enabled, refreshInterval |-> refreshInterval,
       maxRefreshes |-> maxRefreshes, minTokens |-> minTokens,
       showNotifications |-> showNotifications,
       showStatusIndicator |-> showStatusIndicator,
       originalResponseLength |-> originalResponseLength,
       prompt |-> prompt, refreshTimer |-> refreshTimer,
       refreshesLeft |-> refreshesLeft, refreshInProgress |-> refreshInProgress,
       nextRefreshTime |-> nextRefreshTime,
       statusUpdateInterval |-> statusUpdateInterval,
       statusDisplay |-> statusDisplay,
       toast |-> "none"]

Commit(s) ==
    /\ Len(s.timers) <= MaxTimers
    /\ Cardinality(s.inflight) <= MaxInFlight
    /\ mainApi' = s.mainApi
    /\ openai_max_tokens' = s.openai_max_tokens
    /\ timers' = s.timers
    /\ inflight' = s.inflight
    /\ hooks' = s.hooks
    /\ enabled' = s.enabled
    /\ refreshInterval' = s.refreshInterval
    /\ maxRefreshes' = s.maxRefreshes
    /\ minTokens' = s.minTokens
    /\ showNotifications' = s.showNotifications
    /\ showStatusIndicator' = s.showStatusIndicator
    /\ originalResponseLength' = s.originalResponseLength
    /\ prompt' = s.prompt
    /\ refreshTimer' = s.refreshTimer
    /\ refreshesLeft' = s.refreshesLeft
    /\ refreshInProgress' = s.refreshInProgress
    /\ nextRefreshTime' = s.nextRefreshTime
    /\ statusUpdateInterval' = s.statusUpdateInterval
    /\ statusDisplay' = s.statusDisplay
    /\ toast' = s.toast

-----------------------------------------------------------------------------
(* The host's timer and request tables *)

TimerIds(q) == {q[i].id : i \in 1..Len(q)}

\* Handles that setTimeout cannot return in this handler: the host never issues a
\* handle twice, so those pending or kept now or when the handler began are taken.
\* (A handle that is neither pending nor kept is forgotten and may name a new timer.)
TakenHandles(s) ==
    TimerIds(s.timers) \cup {s.refreshTimer} \cup TimerIds(timers) \cup {refreshTimer}

setTimeout(s) ==
    CHOOSE i \in 1..(Cardinality(TakenHandles(s)) + 1) :
        /\ i \notin TakenHandles(s)
        /\ \A j \in 1..(i - 1) : j \in TakenHandles(s)

\* clearTimeout of a handle that already fired changes nothing
clearTimeout(q, id) == SelectSeq(q, LAMBDA t : t.id # id)

RequestIds(s) == {r.id : r \in s.inflight} \cup (s.hooks \ {0})

NewRequestId(s) ==
    CHOOSE i \in 1..(Cardinality(RequestIds(s)) + 1) :
        /\ i \notin RequestIds(s)
        /\ \A j \in 1..(i - 1) : j \in RequestIds(s)

-----------------------------------------------------------------------------
(* TempResponseLength *)

isCustomized(s) == s.originalResponseLength > -1

\* save that records the original length and forgets to set the new one
save_notLowered(s, responseLength) ==
    [s EXCEPT !.originalResponseLength = s.openai_max_tokens]

save(s, responseLength) ==
    [s EXCEPT !.originalResponseLength = s.openai_max_tokens,
              !.openai_max_tokens = responseLength]

restore(s) ==
    IF s.originalResponseLength = -1 THEN s
    ELSE [s EXCEPT !.openai_max_tokens = s.originalResponseLength,
                   !.originalResponseLength = -1]

\* eventSource.once(CHAT_COMPLETION_SETTINGS_READY, eventHook)
setupEventHook(s, rid) == [s EXCEPT !.hooks = @ \cup {rid}]

removeEventHook(s, rid) == [s EXCEPT !.hooks = @ \ {rid}]

\* A hook that is not removed stays registered after its request has settled.
\* Such listeners are closures with the same body: they are kept as the one
\* element 0.
leaveEventHook(s, rid) ==
    IF rid \in s.hooks THEN [s EXCEPT !.hooks = (@ \ {rid}) \cup {0}] ELSE s

\* the hook itself
eventHook(s) == IF isCustomized(s) THEN restore(s) ELSE s

-----------------------------------------------------------------------------
(* Notifications and the status indicator *)

\* a notification shown whatever the setting
showNotification_always(s, type) == [s EXCEPT !.toast = type]

showNotification(s, type) ==
    IF s.showNotifications THEN [s EXCEPT !.toast = type] ELSE s

isChatCompletion(s) == s.mainApi = "openai"

updateStatusIndicator(s) ==
    IF s.enabled /\ s.refreshesLeft > 0 /\ s.showStatusIndicator
    THEN [s EXCEPT !.statusDisplay = TRUE, !.statusUpdateInterval = TRUE]
    ELSE [s EXCEPT !.statusDisplay = FALSE, !.statusUpdateInterval = FALSE]

\* updateSettingsPanel writes the settings panel only
updateUI(s) == updateStatusIndicator(s)

-----------------------------------------------------------------------------
(* The refresh cycle *)

\* a stop that drops the handle and leaves the timer in the event loop
stopRefreshCycle_keepsTimer(s) ==
    LET s1 == [s EXCEPT !.refreshTimer = 0, !.statusUpdateInterval = FALSE]
        s2 == [s1 EXCEPT !.nextRefreshTime = << >>,
                         !.refreshInProgress = FALSE]
    IN  updateUI(s2)

stopRefreshCycle(s) ==
    LET s1 == IF s.refreshTimer # 0
              THEN [s EXCEPT !.timers = clearTimeout(s.timers, s.refreshTimer),
                             !.refreshTimer = 0]
              ELSE s
        s2 == [s1 EXCEPT !.statusUpdateInterval = FALSE]
        s3 == [s2 EXCEPT !.nextRefreshTime = << >>,
                         !.refreshInProgress = FALSE]
    IN  updateUI(s3)

\* Date.now() is the origin of the timestamps
\* a scheduling that arms with the default interval, whatever is configured
scheduleNextRefresh_defaultDelay(s) ==
    IF ~s.enabled \/ s.refreshesLeft <= 0 \/ s.prompt = 0
    THEN stopRefreshCycle(s)
    ELSE LET id == setTimeout(s)
         IN  updateStatusIndicator([s EXCEPT !.nextRefreshTime = <<s.refreshInterval>>,
                  !.refreshTimer = id,
                  !.timers = Append(@, [id |-> id, delay |-> DefaultRefreshInterval])])

\* a scheduling that goes on when no refresh is left
scheduleNextRefresh_ignoresBudget(s) ==
    IF ~s.enabled \/ s.prompt = 0
    THEN stopRefreshCycle(s)
    ELSE LET id == setTimeout(s)
         IN  updateStatusIndicator([s EXCEPT !.nextRefreshTime = <<s.refreshInterval>>,
                  !.refreshTimer = id,
                  !.timers = Append(@, [id |-> id, delay |-> s.refreshInterval])])

scheduleNextRefresh(s) ==
    IF ~s.enabled \/ s.refreshesLeft <= 0 \/ s.prompt = 0
    THEN stopRefreshCycle(s)
    ELSE LET id == setTimeout(s)
         IN  updateStatusIndicator(
               [s EXCEPT !.nextRefreshTime = <<s.refreshInterval>>,
                         !.refreshTimer = id,
                         !.timers = Append(@, [id |-> id, delay |-> s.refreshInterval])])

\* a finally block that forgets refreshesLeft--
refreshCacheFinally_noDecrement(s, rid) ==
    LET s1 == IF isCustomized(s) THEN removeEventHook(restore(s), rid)
                                 ELSE leaveEventHook(s, rid)
        s2 == [s1 EXCEPT !.refreshInProgress = FALSE]
    IN  scheduleNextRefresh(updateUI(s2))

\* the finally block of refreshCache, run by request rid (0: nothing was sent)
refreshCacheFinally(s, rid) ==
    LET s1 == IF isCustomized(s) THEN removeEventHook(restore(s), rid)
                                 ELSE leaveEventHook(s, rid)
        s2 == [s1 EXCEPT !.refreshInProgress = FALSE,
                         !.refreshesLeft = @ - 1]
    IN  scheduleNextRefresh(updateUI(s2))

\* a callback that sends whatever lastGenerationData.prompt holds, null too
refreshCache_noPromptGuard(s) ==
    IF s.refreshInProgress THEN s
    ELSE LET s1 == updateUI([s EXCEPT !.refreshInProgress = TRUE])
             rid == NewRequestId(s1)
             s2 == setupEventHook(save(s1, 1), rid)
         IN  [s2 EXCEPT !.inflight = @ \cup
                 {[id |-> rid, prompt |-> s2.prompt,
                   tokens |-> s2.openai_max_tokens]}]

\* a callback that does not look at refreshInProgress
refreshCache_noProgressGuard(s) ==
    IF s.prompt = 0 THEN s
    ELSE LET s1 == updateUI([s EXCEPT !.refreshInProgress = TRUE])
             rid == NewRequestId(s1)
             s2 == setupEventHook(save(s1, 1), rid)
         IN  [s2 EXCEPT !.inflight = @ \cup
                 {[id |-> rid, prompt |-> s2.prompt,
                   tokens |-> s2.openai_max_tokens]}]

\* refreshCache up to its await: the request is handed to the host, which reads
\* the prompt and the response length as it is called
refreshCache(s) ==
    IF s.prompt = 0 \/ s.refreshInProgress THEN s
    ELSE LET s1 == updateUI([s EXCEPT !.refreshInProgress = TRUE])
         IN  IF ~isChatCompletion(s1)
             THEN refreshCacheFinally(showNotification(s1, "error"), 0)
             ELSE LET rid == NewRequestId(s1)
                      s2 == setupEventHook(save(s1, 1), rid)
                  IN  [s2 EXCEPT !.inflight = @ \cup
                          {[id |-> rid, prompt |-> s2.prompt,
                            tokens |-> s2.openai_max_tokens]}]

\* a continuation that charges only successful refreshes to the budget
refreshCacheSettled_failureNotCounted(s, r, ok) ==
    LET s1 == [s EXCEPT !.inflight = @ \ {r}]
    IN  IF ok THEN refreshCacheFinally(showNotification(s1, "success"), r.id)
        ELSE refreshCacheFinally(
                [showNotification(s1, "error") EXCEPT !.refreshesLeft = @ + 1], r.id)

\* refreshCache from the await on: the request settled
refreshCacheSettled(s, r, ok) ==
    LET s1 == [s EXCEPT !.inflight = @ \ {r}]
        s2 == IF ok THEN showNotification(s1, "success")
                    ELSE showNotification(s1, "error")
    IN  refreshCacheFinally(s2, r.id)

\* a capture that stores the prompt whatever the API
captureGenerationData_anyApi(s, data) ==
    IF ~s.enabled
    THEN IF s.prompt # 0 THEN [s EXCEPT !.prompt = 0] ELSE s
    ELSE IF data.dryRun THEN s
    ELSE stopRefreshCycle([s EXCEPT !.prompt = data.chat])

\* a capture that stores the prompt of a dry run too
captureGenerationData_keepsDryRun(s, data) ==
    IF ~s.enabled
    THEN IF s.prompt # 0 THEN [s EXCEPT !.prompt = 0] ELSE s
    ELSE IF ~isChatCompletion(s) THEN s
    ELSE stopRefreshCycle([s EXCEPT !.prompt = data.chat])

\* a capture that stores the prompt while the extension is disabled
captureGenerationData_storesWhenDisabled(s, data) ==
    IF ~isChatCompletion(s) THEN s
    ELSE IF data.dryRun THEN s
    ELSE stopRefreshCycle([s EXCEPT !.prompt = data.chat])

captureGenerationData(s, data) ==
    IF ~s.enabled
    THEN IF s.prompt # 0 THEN [s EXCEPT !.prompt = 0] ELSE s
    ELSE IF ~isChatCompletion(s) THEN s
    ELSE IF data.dryRun THEN s
    ELSE stopRefreshCycle([s EXCEPT !.prompt = data.chat])

\* the MESSAGE_RECEIVED listener
onMessageReceived(s) ==
    IF s.enabled /\ s.prompt # 0
    THEN updateUI(scheduleNextRefresh(
            [stopRefreshCycle(s) EXCEPT !.refreshesLeft = s.maxRefreshes]))
    ELSE s

\* the CHAT_CHANGED listener
onChatChanged(s) ==
    updateUI([stopRefreshCycle(s) EXCEPT !.prompt = 0, !.refreshesLeft = 0])

-----------------------------------------------------------------------------
(* The settings handlers *)

\* a disable that stops the cycle and keeps the stored prompt
disableBranch_keepsPrompt(s) ==
    [stopRefreshCycle(showNotification(s, "info")) EXCEPT !.refreshesLeft = 0]

\* the else branch of the enabled toggle
\* a disable that only turns the flag off
disableBranch_flagOnly(s) == showNotification(s, "info")

disableBranch(s) ==
    [stopRefreshCycle(showNotification(s, "info"))
        EXCEPT !.prompt = 0, !.refreshesLeft = 0]

\* an enable toggle that starts a cycle by itself
onEnabledChange_startsCycle(s, checked) ==
    LET s1 == [s EXCEPT !.enabled = checked]
        id == setTimeout(s1)
        s2 == IF s1.enabled
              THEN [showNotification(s1, "info") EXCEPT
                        !.refreshesLeft = s1.maxRefreshes,
                        !.nextRefreshTime = <<s1.refreshInterval>>,
                        !.refreshTimer = id,
                        !.timers = Append(@, [id |-> id, delay |-> s1.refreshInterval])]
              ELSE disableBranch(s1)
    IN  updateUI(s2)

onEnabledChange(s, checked) ==
    LET s1 == [s EXCEPT !.enabled = checked]
        s2 == IF s1.enabled THEN showNotification(s1, "info") ELSE disableBranch(s1)
    IN  updateUI(s2)

\* the reschedule of a running cycle after a settings edit
reschedule(s) ==
    IF s.enabled /\ s.refreshTimer # 0
    THEN scheduleNextRefresh(stopRefreshCycle(s))
    ELSE s

onMaxRefreshesInput(s, text) ==
    reschedule([s EXCEPT !.maxRefreshes =
                    OrDefault(parseInt(text), DefaultMaxRefreshes)])

onIntervalInput(s, text) ==
    reschedule([s EXCEPT !.refreshInterval =
                    OrDefault(parseFloat(text), DefaultRefreshInterval \div (6 * 1000))
                        * 6 * 1000])

onMinTokensInput(s, text) ==
    [s EXCEPT !.minTokens = OrDefault(parseInt(text), DefaultMinTokens)]

onShowNotificationsChange(s, checked) == [s EXCEPT !.showNotifications = checked]

onShowStatusIndicatorChange(s, checked) ==
    updateUI([s EXCEPT !.showStatusIndicator = checked])

-----------------------------------------------------------------------------
(* Observation of the run *)

CaptureInputs == [chat : Prompts, dryRun : BOOLEAN]

Accepted(data) == enabled /\ mainApi = "openai" /\ ~data.dryRun

StartAccepted == enabled /\ prompt # 0

\* In the scenario, the cycle was started and its first timer has not fired yet
BeforeFirstFire ==
    /\ phase = "running"
    /\ timers # << >>
    /\ inflight = {}
    /\ refreshesLeft = maxRefreshes

\* The phase after a handler other than an accepted start: once the scenario's
\* cycle was stopped before its first timer fired, it stays so until a start.
PhaseAfter(stops, otherwise) ==
    IF phase = "stoppedEarly" \/ (stops /\ BeforeFirstFire) THEN "stoppedEarly"
    ELSE otherwise

\* the step issues no request, starts no cycle and edits no setting
KeepObs == UNCHANGED <<quota, edits>>

\* the step is one of the MaxEdits edits of a run
Edited == edits < MaxEdits /\ edits' = edits + 1 /\ UNCHANGED quota

-----------------------------------------------------------------------------
(* Initial state: the module body and the jQuery ready callback have run *)

Init ==
    /\ mainApi \in Apis
    /\ appReady = FALSE
    /\ openai_max_tokens \in HostTokens
    /\ timers = << >>
    /\ inflight = {}
    /\ hooks = {}
    /\ stored \in StoredAtStart
    /\ LET settings == ObjectAssign(defaultSettings, stored)
       IN  /\ enabled = settings.enabled[1]
           /\ refreshInterval = settings.refreshInterval[1]
           /\ maxRefreshes = settings.maxRefreshes[1]
           /\ minTokens = settings.minTokens[1]
           /\ showNotifications = settings.showNotifications[1]
           /\ showStatusIndicator = settings.showStatusIndicator[1]
    /\ originalResponseLength = -1
    /\ prompt = 0
    /\ refreshTimer = 0
    /\ refreshesLeft = 0
    /\ refreshInProgress = FALSE
    /\ nextRefreshTime = << >>
    /\ statusUpdateInterval = FALSE
    /\ statusDisplay = FALSE
    /\ toast = "none"
    /\ ev = "init"
    /\ quota = 0
    /\ edits = 0
    /\ phase = "fresh"
    /\ resume = "ok"

-----------------------------------------------------------------------------
(* Actions: one per event the host delivers *)

\* APP_READY: the listeners for prompts, messages and chat changes are registered
AppReady ==
    /\ ~appReady
    /\ appReady' = TRUE
    /\ ev' = "appReady"
    /\ UNCHANGED <<mainApi, openai_max_tokens, timers, inflight, hooks, stored,
                   enabled, refreshInterval, maxRefreshes, minTokens,
                   showNotifications, showStatusIndicator, originalResponseLength,
                   prompt, refreshTimer, refreshesLeft, refreshInProgress,
                   nextRefreshTime, statusUpdateInterval, statusDisplay, toast,
                   quota, edits, phase, resume>>

\* CHAT_COMPLETION_PROMPT_READY
Capture ==
    /\ appReady
    /\ \E data \in CaptureInputs :
        /\ Commit(captureGenerationData(St, data))
        /\ ev' = IF ~enabled THEN "captureDisabled"
                 ELSE IF Accepted(data) THEN "capture"
                 ELSE IF data.dryRun THEN "captureDryRun" ELSE "captureSkipped"
        /\ phase' = IF Accepted(data) /\ phase \in {"fresh", "captured"}
                    THEN "captured"
                    ELSE PhaseAfter(Accepted(data), "off")
        /\ resume' = IF Accepted(data) /\ resume = "needCapture"
                     THEN "needStart" ELSE resume
    /\ UNCHANGED <<appReady, stored, stored>>
    /\ KeepObs

\* MESSAGE_RECEIVED
MessageReceived ==
    /\ appReady
    /\ Commit(onMessageReceived(St))
    /\ ev' = IF StartAccepted THEN "start" ELSE "startIgnored"
    /\ quota' = IF StartAccepted
                THEN (IF maxRefreshes > 0 THEN maxRefreshes ELSE 0)
                ELSE quota
    /\ UNCHANGED edits
    /\ phase' = IF StartAccepted
                THEN (IF phase = "captured" THEN "running" ELSE "off")
                ELSE PhaseAfter(FALSE, "off")
    /\ resume' = IF StartAccepted /\ resume = "needStart" THEN "ok" ELSE resume
    /\ UNCHANGED <<appReady, stored, stored>>

\* CHAT_CHANGED
ChatChanged ==
    /\ appReady
    /\ Commit(onChatChanged(St))
    /\ ev' = "chatChanged"
    /\ phase' = PhaseAfter(TRUE, "off")
    /\ resume' = "needCapture"
    /\ UNCHANGED <<appReady, stored, stored>>
    /\ KeepObs

\* change of the enabled checkbox, which shows settings.enabled until then
EnabledChange ==
    /\ Commit(onEnabledChange(St, ~enabled))
    /\ ev' = IF enabled THEN "disable" ELSE "enable"
    /\ phase' = PhaseAfter(enabled, IF phase = "fresh" THEN "fresh" ELSE "off")
    /\ resume' = IF enabled THEN "needCapture" ELSE resume
    /\ UNCHANGED <<appReady, stored, stored>>
    /\ KeepObs

MaxRefreshesInput ==
    /\ \E text \in MaxRefreshesInputs : Commit(onMaxRefreshesInput(St, text))
    /\ ev' = "setMaxRefreshes"
    /\ phase' = PhaseAfter(FALSE, IF phase = "fresh" THEN "fresh" ELSE "off")
    /\ UNCHANGED <<appReady, stored, resume>>
    /\ Edited

IntervalInput ==
    /\ \E text \in IntervalInputs : Commit(onIntervalInput(St, text))
    /\ ev' = "setInterval"
    /\ phase' = PhaseAfter(FALSE, IF phase = "fresh" THEN "fresh" ELSE "off")
    /\ UNCHANGED <<appReady, stored, resume>>
    /\ Edited

MinTokensInput ==
    /\ \E text \in MinTokensInputs : Commit(onMinTokensInput(St, text))
    /\ ev' = "edit"
    /\ phase' = PhaseAfter(FALSE, IF phase = "fresh" THEN "fresh" ELSE "off")
    /\ UNCHANGED <<appReady, stored, resume>>
    /\ Edited

ShowNotificationsChange ==
    /\ Commit(onShowNotificationsChange(St, ~showNotifications))
    /\ ev' = "edit"
    /\ phase' = PhaseAfter(FALSE, IF phase = "fresh" THEN "fresh" ELSE "off")
    /\ UNCHANGED <<appReady, stored, resume>>
    /\ Edited

ShowStatusIndicatorChange ==
    /\ Commit(onShowStatusIndicatorChange(St, ~showStatusIndicator))
    /\ ev' = "edit"
    /\ phase' = PhaseAfter(FALSE, IF phase = "fresh" THEN "fresh" ELSE "off")
    /\ UNCHANGED <<appReady, stored, resume>>
    /\ Edited

\* A pending timer fires and runs refreshCache up to its await.  Of two timers
\* the one armed first fires first unless its delay is the longer one.
TimerFire ==
    /\ \E i \in 1..Len(timers) :
        /\ \A j \in 1..(i - 1) : timers[j].delay > timers[i].delay
        /\ LET fired == [St EXCEPT !.timers =
                            SubSeq(timers, 1, i - 1) \o SubSeq(timers, i + 1, Len(timers))]
               s == refreshCache(fired)
               issued == s.inflight # inflight
           IN  /\ Commit(s)
               /\ ev' = IF issued THEN "fireSent" ELSE "fireNoop"
               /\ quota' = IF issued /\ quota >= 0 THEN quota - 1 ELSE quota
    /\ UNCHANGED <<appReady, stored, edits, phase, resume>>

\* sendGenerationRequest settles: resolved (ok) or rejected
RequestSettled ==
    /\ \E r \in inflight, ok \in BOOLEAN :
        /\ Commit(refreshCacheSettled(St, r, ok))
        /\ ev' = IF ok THEN "completeOk" ELSE "completeFail"
    /\ UNCHANGED <<appReady, stored, phase, resume>>
    /\ KeepObs

\* the host emits CHAT_COMPLETION_SETTINGS_READY: every registered hook runs once
SettingsReady ==
    /\ hooks # {}
    /\ Commit([eventHook(St) EXCEPT !.hooks = {}])
    /\ ev' = "settingsReady"
    /\ UNCHANGED <<appReady, stored, phase, resume>>
    /\ KeepObs

\* the countdown interval ticks
StatusTick ==
    /\ statusUpdateInterval
    /\ Commit(updateStatusIndicator(St))
    /\ ev' = "tick"
    /\ UNCHANGED <<appReady, stored, phase, resume>>
    /\ KeepObs

Next ==
    \/ AppReady
    \/ Capture
    \/ MessageReceived
    \/ ChatChanged
    \/ EnabledChange
    \/ MaxRefreshesInput
    \/ IntervalInput
    \/ MinTokensInput
    \/ ShowNotificationsChange
    \/ ShowStatusIndicatorChange
    \/ TimerFire
    \/ RequestSettled
    \/ SettingsReady
    \/ StatusTick

Spec == Init /\ [][Next]_vars

\* The runs in which the user's response length is MaxHostTokens, above what a
\* refresh asks for
InitTokens == Init /\ openai_max_tokens = MaxHostTokens

SpecTokens == InitTokens /\ [][Next]_vars

-----------------------------------------------------------------------------
(* The number inputs on their own: any sequence of edits, over every text *)

MaxRefreshesEdit ==
    /\ \E text \in NumberTexts : Commit(onMaxRefreshesInput(St, text))
    /\ ev' = "setMaxRefreshes"
    /\ UNCHANGED <<appReady, stored, quota, edits, phase, resume>>

IntervalEdit ==
    /\ \E text \in NumberTexts : Commit(onIntervalInput(St, text))
    /\ ev' = "setInterval"
    /\ UNCHANGED <<appReady, stored, quota, edits, phase, resume>>

MinTokensEdit ==
    /\ \E text \in NumberTexts : Commit(onMinTokensInput(St, text))
    /\ ev' = "setMinTokens"
    /\ UNCHANGED <<appReady, stored, quota, edits, phase, resume>>

NextEdits == MaxRefreshesEdit \/ IntervalEdit \/ MinTokensEdit

SpecEdits == Init /\ [][NextEdits]_vars

-----------------------------------------------------------------------------
(* The load of the extension on its own, over every stored settings record *)

\* Before the module body runs: defaultSettings exists, nothing is merged yet
InitLoad ==
    /\ mainApi \in Apis
    /\ appReady = FALSE
    /\ openai_max_tokens \in HostTokens
    /\ timers = << >>
    /\ inflight = {}
    /\ hooks = {}
    /\ stored \in StoredSettings
    /\ enabled = defaultSettings.enabled[1]
    /\ refreshInterval = defaultSettings.refreshInterval[1]
    /\ maxRefreshes = defaultSettings.maxRefreshes[1]
    /\ minTokens = defaultSettings.minTokens[1]
    /\ showNotifications = defaultSettings.showNotifications[1]
    /\ showStatusIndicator = defaultSettings.showStatusIndicator[1]
    /\ originalResponseLength = -1
    /\ prompt = 0
    /\ refreshTimer = 0
    /\ refreshesLeft = 0
    /\ refreshInProgress = FALSE
    /\ nextRefreshTime = << >>
    /\ statusUpdateInterval = FALSE
    /\ statusDisplay = FALSE
    /\ toast = "none"
    /\ ev = "boot"
    /\ quota = 0
    /\ edits = 0
    /\ phase = "fresh"
    /\ resume = "ok"

\* The module body: the stored record is merged over the defaults and written back
Load ==
    /\ ev = "boot"
    /\ LET settings == ObjectAssign(defaultSettings, stored)
       IN  /\ enabled' = settings.enabled[1]
           /\ refreshInterval' = settings.refreshInterval[1]
           /\ maxRefreshes' = settings.maxRefreshes[1]
           /\ minTokens' = settings.minTokens[1]
           /\ showNotifications' = settings.showNotifications[1]
           /\ showStatusIndicator' = settings.showStatusIndicator[1]
    /\ ev' = "init"
    /\ UNCHANGED <<mainApi, appReady, openai_max_tokens, timers, inflight, hooks,
                   stored, originalResponseLength, prompt, refreshTimer,
                   refreshesLeft, refreshInProgress, nextRefreshTime,
                   statusUpdateInterval, statusDisplay, toast, quota, edits,
                   phase, resume>>

NextLoad == Load

SpecLoad == InitLoad /\ [][NextLoad]_vars

-----------------------------------------------------------------------------
(* Properties *)

\* a timer was armed by the step: a handle is pending that was not before
TimerArmedInStep == \E i \in 1..Len(timers') : timers'[i].id \notin TimerIds(timers)

\* a refresh request was issued by the step
RequestIssuedInStep == inflight' \ inflight # {}

\* C1: in every reachable state at most one refresh timer is pending.
C1_AtMostOneTimerPending == Len(timers) <= 1

\* C2: in every reachable state at most one refresh request is in flight.
C2_AtMostOneRequestInFlight == Cardinality(inflight) <= 1

\* C3: between one start and the next, no more refresh requests are issued than
\* maxRefreshes was when the cycle started.
C3_RefreshBudgetRespected == quota >= 0

\* C4: for maxRefreshes = n >= 1, after load, capture and start followed only by
\* timer firings and request completions, the requests issued never exceed n, one
\* timer or one request is outstanding while refreshes remain, and once nothing is
\* outstanding exactly n requests were issued and the scheduler is stopped with
\* refreshesLeft = 0.
C4_ScenarioIssuesExactlyN ==
    (phase = "running" /\ maxRefreshes >= 1) =>
        /\ quota >= 0
        /\ refreshesLeft = quota + Cardinality(inflight)
        /\ Len(timers) + Cardinality(inflight) <= 1
        /\ (refreshesLeft > 0 => Len(timers) + Cardinality(inflight) = 1)
        /\ (timers = << >> /\ inflight = {}) =>
              /\ quota = 0
              /\ refreshesLeft = 0
              /\ ~refreshInProgress
              /\ nextRefreshTime = << >>

\* C4's case: a cycle of three refreshes, one of them failed, has run to its end.
C4_Witness ==
    /\ phase = "running"
    /\ maxRefreshes = 3
    /\ quota = 0
    /\ timers = << >>
    /\ inflight = {}
    /\ ev = "completeFail"

\* C5: every refresh request issued asks for at most minTokens tokens (for
\* minTokens >= 1) and for no more than the host's response length was.
C5_RequestSizeLowered ==
    [][\A r \in inflight' \ inflight :
          /\ minTokens >= 1 => r.tokens <= minTokens
          /\ r.tokens <= openai_max_tokens]_vars

\* C5's case: a request was issued with minTokens = 2 and a host response length of
\* 2, and asks for fewer tokens than the host's length.
C5_Witness ==
    /\ ev = "fireSent"
    /\ minTokens = 2
    /\ originalResponseLength = 2
    /\ \E r \in inflight : r.tokens < originalResponseLength

\* C6: a capture while the extension is disabled leaves the stored prompt, the
\* counters, the timestamp and the timers as they were.
C6_CaptureWhileDisabledIsNoOp ==
    [][ev' = "captureDisabled" =>
          UNCHANGED <<prompt, refreshesLeft, refreshInProgress, nextRefreshTime,
                      refreshTimer, timers, inflight>>]_vars

\* C6's case: a capture arrived after a cycle had been started and the extension
\* was then disabled.
C6_Witness ==
    /\ ev = "captureDisabled"
    /\ ~enabled
    /\ quota > 0
    /\ resume = "needCapture"

\* C7: right after a chat change the stored prompt is cleared and no refresh timer
\* is pending.
C7_ChatChangedClearsAll == ev = "chatChanged" => (prompt = 0 /\ timers = << >>)

\* C8: right after a disable the stored prompt is empty, no timer is pending and
\* refreshInProgress is false.
C8_DisableClearsAll ==
    ev = "disable" => (prompt = 0 /\ timers = << >> /\ ~refreshInProgress)

\* C9: after a chat change or a disable, no timer is armed and no refresh request
\* is issued until a capture has been followed by a start.
C9_NoActivityUntilCaptureAndStart ==
    [][resume' # "ok" => (~TimerArmedInStep /\ ~RequestIssuedInStep)]_vars

\* C10 as claimed: a failed refresh shows a failure notification, takes exactly one
\* from refreshesLeft, issues no request, and arms a new timer if refreshes remain.
C10_FailureNotifiesAlways ==
    [][ev' = "completeFail" =>
          /\ toast' = "error"
          /\ refreshesLeft' = refreshesLeft - 1
          /\ ~RequestIssuedInStep
          /\ (refreshesLeft' > 0 => TimerArmedInStep)]_vars

\* C10 amended: the failure notification is shown if and only if showNotifications
\* is on; the rest as claimed.
C10_FailureCountsAndContinues ==
    [][ev' = "completeFail" =>
          /\ toast' = (IF showNotifications THEN "error" ELSE "none")
          /\ refreshesLeft' = refreshesLeft - 1
          /\ ~RequestIssuedInStep
          /\ (refreshesLeft' > 0 => TimerArmedInStep)]_vars

\* C10's case: a refresh failed with two refreshes left; one is left, the failure
\* was notified and the timer of the next attempt is pending.
C10_Witness ==
    /\ ev = "completeFail"
    /\ toast = "error"
    /\ refreshesLeft = 1
    /\ refreshTimer \in TimerIds(timers)
    /\ nextRefreshTime # << >>

\* C11: in the scenario load, capture, start, when the cycle is stopped (by a new
\* capture, a chat change or a disable) before its first timer fires, the timer is
\* cancelled at once and, until the next start, no timer is pending and no request
\* is in flight: no request is sent.
C11_StopBeforeFireSendsNothing ==
    phase = "stoppedEarly" =>
        /\ timers = << >>
        /\ inflight = {}
        /\ refreshTimer = 0
        /\ ~refreshInProgress
        /\ nextRefreshTime = << >>

\* C11's case: the started cycle was stopped by a chat change before its timer fired.
C11_Witness ==
    /\ phase = "stoppedEarly"
    /\ ev = "chatChanged"
    /\ quota = maxRefreshes

\* C12: a MESSAGE_RECEIVED start acts only when the extension is enabled, a
\* prompt is stored and the API is chat completion; an ignored start leaves
\* refreshesLeft, the timers, the timer handle, the prompt and the requests as
\* they were; no timer is ever armed and no request issued under another API.
C12_StartNeedsAllPreconditions ==
    [][ /\ (ev' = "start" =>
                enabled /\ prompt # 0 /\ mainApi = "openai")
        /\ (ev' = "startIgnored" =>
                /\ ~(enabled /\ prompt # 0 /\ mainApi = "openai")
                /\ UNCHANGED <<refreshesLeft, timers, refreshTimer, prompt,
                               inflight, refreshInProgress, nextRefreshTime>>)
        /\ (mainApi # "openai" => timers' = << >> /\ inflight' = {})
      ]_vars

\* C12's case: a start is ignored, under an API that is not chat completion, after
\* the extension (enabled) was offered a prompt.
C12_Witness ==
    /\ ev = "startIgnored"
    /\ enabled
    /\ mainApi # "openai"
    /\ phase = "off"

\* C13: a capture flagged as a dry run, with the extension enabled, leaves the stored
\* prompt, the timers, the timer handle, refreshesLeft, refreshInProgress,
\* nextRefreshTime and the requests in flight as they were.
C13_DryRunCaptureIgnored ==
    [][ev' = "captureDryRun" =>
            UNCHANGED <<prompt, timers, refreshTimer, refreshesLeft,
                        refreshInProgress, nextRefreshTime, inflight,
                        statusUpdateInterval>>]_vars

\* C13's case: a dry run arrived while a cycle was running on a stored prompt
C13_Witness ==
    /\ ev = "captureDryRun"
    /\ prompt # 0
    /\ timers # << >>
    /\ refreshTimer # 0
    /\ refreshesLeft > 0

\* C14: an accepted capture stores a prompt, drops the timer handle and arms no
\* timer, and in the step that follows it, unless that step is a start, no timer
\* becomes armed (in particular not by a request that was in flight at the capture
\* and completes now).
C14_NoTimerArmedAfterCapture ==
    [][ /\ (ev' = "capture" =>
                prompt' # 0 /\ refreshTimer' = 0 /\ ~TimerArmedInStep)
        /\ ((ev = "capture" /\ ev' # "start") => ~TimerArmedInStep)
      ]_vars

\* C15: right after an accepted capture refreshInProgress is false and refreshesLeft
\* holds no positive count of an earlier cycle.
C15_CaptureInvalidatesCounters ==
    ev = "capture" => (~refreshInProgress /\ refreshesLeft <= 0)

\* C16: from every reachable state, after stopRefreshCycle no timer is pending,
\* refreshInProgress is false and nextRefreshTime is null, and a second
\* stopRefreshCycle changes nothing.
C16_StopLeavesNothingPending ==
    LET s == stopRefreshCycle(St)
    IN  /\ s.timers = << >>
        /\ s.refreshTimer = 0
        /\ ~s.refreshInProgress
        /\ s.nextRefreshTime = << >>
        /\ stopRefreshCycle(s) = s

\* C17: refreshesLeft is never negative
C17_RefreshesLeftNonNegative ==
    refreshesLeft >= 0

\* C18: right after an accepted start refreshesLeft = maxRefreshes and exactly one
\* timer is pending, the one refreshTimer names, armed for refreshInterval; a second
\* start from there leaves the same: refreshesLeft = maxRefreshes and one timer
\* pending for refreshInterval.
C18_StartArmsExactlyOneTimer ==
    ev = "start" =>
        /\ refreshesLeft = maxRefreshes
        /\ Len(timers) = 1
        /\ timers[1].id = refreshTimer
        /\ timers[1].delay = refreshInterval
        /\ LET s == onMessageReceived(St)
           IN  /\ s.refreshesLeft = refreshesLeft
               /\ Len(s.timers) = 1
               /\ s.timers[1].id = s.refreshTimer
               /\ s.timers[1].delay = refreshInterval

\* C19: when a refresh request settles (ok or not), a new timer is armed if and
\* only if, after the decrement, refreshesLeft > 0, a prompt is stored and the
\* extension is enabled; otherwise no timer is pending and the handle is null.
C19_CompletionSchedulesOrStops ==
    [][ev' \in {"completeOk", "completeFail"} =>
            IF refreshesLeft' > 0 /\ prompt' # 0 /\ enabled'
            THEN TimerArmedInStep /\ refreshTimer' # 0
            ELSE ~TimerArmedInStep /\ timers' = << >> /\ refreshTimer' = 0
      ]_vars

C22_NotificationFollowsSettingOnly ==
    /\ (ev = "completeOk" =>
            toast = (IF showNotifications THEN "success" ELSE "none"))
    /\ (ev = "completeFail" =>
            toast = (IF showNotifications THEN "error" ELSE "none"))
    /\ \A r \in inflight, ok \in BOOLEAN :
        LET on == refreshCacheSettled([St EXCEPT !.showNotifications = TRUE], r, ok)
            off == refreshCacheSettled([St EXCEPT !.showNotifications = FALSE], r, ok)
        IN  /\ on.toast = (IF ok THEN "success" ELSE "error")
            /\ off.toast = "none"
            /\ on.refreshesLeft = refreshesLeft - 1
            /\ [on EXCEPT !.toast = "none", !.showNotifications = FALSE] = off
    /\ LET on == refreshCache([St EXCEPT !.showNotifications = TRUE])
           off == refreshCache([St EXCEPT !.showNotifications = FALSE])
       IN  [on EXCEPT !.toast = "none", !.showNotifications = FALSE] = off

\* C22's case: a refresh succeeded with showNotifications off: nothing was shown,
\* and the refresh was counted
C22_Witness ==
    /\ ev = "completeOk"
    /\ ~showNotifications
    /\ toast = "none"
    /\ refreshesLeft < maxRefreshes

\* What is left to do when the host delivers no further event: every pending
\* timer is one firing, every request in flight one settling, every refresh left
\* one request and one timer more. Three for a timer, two for a request, two for
\* a refresh left.
WorkLeft ==
    3 * Len(timers) + 2 * Cardinality(inflight)
        + 2 * (IF refreshesLeft > 0 THEN refreshesLeft ELSE 0)

\* C23: when the host delivers no further event, while every pending timer fires
\* and every request settles, the cycle ends after finitely many attempts. Every
\* firing and every settling takes from WorkLeft, which is never negative; the
\* hooks and the ticks leave it and the timers, the requests and refreshInProgress
\* as they are; and once no timer is pending and no request in flight,
\* refreshInProgress is false.
C23_QuietCycleStops ==
    /\ [](timers = << >> /\ inflight = {} => ~refreshInProgress)
    /\ [][ /\ (ev' \in {"fireSent", "fireNoop", "completeOk", "completeFail"} =>
                    WorkLeft' < WorkLeft)
           /\ (ev' \in {"settingsReady", "tick"} =>
                    /\ WorkLeft' = WorkLeft
                    /\ UNCHANGED <<timers, inflight, refreshInProgress>>)
         ]_vars

\* C23's case: a started cycle ran through all its refreshes and stopped
C23_Witness ==
    /\ phase = "running"
    /\ quota = 0
    /\ refreshesLeft = 0
    /\ timers = << >>
    /\ inflight = {}
    /\ ~refreshInProgress
    /\ ev \in {"completeOk", "completeFail"}

\* C24: every timer that becomes armed carries the delay refreshInterval holds
\* when the arming handler returns (an interval edit stores the new value before
\* it re-arms), after a success as after a failure.
C24_TimerDelayIsConfiguredInterval ==
    [][\A i \in 1..Len(timers') :
            timers'[i].id \notin TimerIds(timers) =>
                timers'[i].delay = refreshInterval']_vars

\* C24's case: after a failed refresh the next timer is armed with an interval the
\* user had changed from the default
C24_Witness ==
    /\ ev = "completeFail"
    /\ refreshInterval = 60000
    /\ refreshTimer # 0
    /\ \E i \in 1..Len(timers) :
            timers[i].id = refreshTimer /\ timers[i].delay = 60000

\* C25: after any edits of the number inputs maxRefreshes, minTokens and
\* refreshInterval are positive
C25_NumberSettingsPositive ==
    maxRefreshes > 0 /\ minTokens > 0 /\ refreshInterval > 0

\* C26: refreshInProgress is true exactly while a refresh request is in flight
C26_FlagMeansRequestInFlight ==
    refreshInProgress <=> (inflight # {})

\* C27: whenever no refresh request is in flight, the host's openai_max_tokens is
\* the response length the user has set (MaxHostTokens in the runs of SpecTokens).
C27_ResponseLengthRestored ==
    inflight = {} => openai_max_tokens = MaxHostTokens

C29_PendingTimerMeansCycleAlive ==
    timers # << >> => (enabled /\ prompt # 0 /\ refreshesLeft > 0)

\* C30: an edit of maxRefreshes or refreshInterval made while a timer is pending
\* cancels it and arms one new timer with the interval now configured, refreshesLeft
\* unchanged; made while no timer is pending it arms none and leaves
\* refreshInProgress as it was.
C30_EditReschedulesOnlyPendingTimer ==
    [][ev' \in {"setMaxRefreshes", "setInterval"} =>
            IF timers # << >>
            THEN /\ refreshTimer \notin TimerIds(timers')
                 /\ Cardinality(TimerIds(timers') \ TimerIds(timers)) = 1
                 /\ refreshTimer' \in TimerIds(timers')
                 /\ \A i \in 1..Len(timers') :
                        timers'[i].id = refreshTimer' =>
                            timers'[i].delay = refreshInterval'
                 /\ refreshesLeft' = refreshesLeft
            ELSE /\ ~TimerArmedInStep
                 /\ refreshInProgress' = refreshInProgress
      ]_vars

\* The state in which the callback of the i-th pending timer starts to run
Fired(i) ==
    [St EXCEPT !.timers = SubSeq(timers, 1, i - 1) \o SubSeq(timers, i + 1, Len(timers))]

\* C31: an accepted capture leaves a prompt stored, a chat change and a disable
\* leave none, and whichever pending timer fires, the request its callback issues
\* carries the prompt stored at that moment, never an empty one.
C31_RequestCarriesCurrentPrompt ==
    /\ (ev = "capture" => prompt # 0)
    /\ (ev \in {"chatChanged", "disable"} => prompt = 0)
    /\ (ev = "fireSent" => \E r \in inflight : r.prompt = prompt)
    /\ \A i \in 1..Len(timers) :
            \A r \in refreshCache(Fired(i)).inflight \ inflight :
                prompt # 0 /\ r.prompt = prompt

\* C31's case: a capture replaced the prompt while a request was in flight, and the
\* timer that fired afterwards sent the new prompt
C31_Witness ==
    /\ ev = "fireSent"
    /\ \E r1, r2 \in inflight :
            /\ r1.prompt # r2.prompt
            /\ r2.prompt = prompt

\* C32: whenever the status indicator is shown, or its countdown interval runs, a
\* timer is pending or a request is in flight; right after an accepted capture or
\* a chat change the indicator is hidden and no countdown interval runs.
C32_IndicatorOnlyWhileCycleActive ==
    /\ (statusDisplay \/ statusUpdateInterval =>
            timers # << >> \/ inflight # {})
    /\ (ev \in {"capture", "chatChanged"} =>
            ~statusDisplay /\ ~statusUpdateInterval)

\* C33: while the extension is disabled no prompt is stored
C33_DisabledMeansNoPrompt ==
    ~enabled => prompt = 0

\* C33's case: a refresh request settled after the extension was disabled
C33_Witness ==
    /\ ~enabled
    /\ ev \in {"completeOk", "completeFail"}
    /\ prompt = 0
    /\ quota >= 0
    /\ refreshesLeft < 0

\* C34: whichever pending timer fires while a refresh is in progress or no prompt
\* is stored, its callback changes nothing: no request, refreshesLeft, the other
\* timers and every other variable as they were, no notification.
C34_GuardedFireIsNoOp ==
    /\ \A i \in 1..Len(timers) :
            (prompt = 0 \/ refreshInProgress) => refreshCache(Fired(i)) = Fired(i)
    /\ (ev = "fireNoop" => toast = "none")

\* C34's case: a timer fired while a refresh was in progress, its request still in
\* flight, and nothing was sent
C34_Witness ==
    /\ ev = "fireNoop"
    /\ refreshInProgress
    /\ prompt # 0
    /\ Cardinality(inflight) = 1
    /\ toast = "none"

====
